---- MODULE Spec2Model ----
(***************************************************************************)
(* Model of dash/development/build_process.py: the BuildProcess            *)
(* orchestrator (clean, npm, bundles, digest, build) acting on a small     *)
(* filesystem.  Python strings are sequences of one-character strings so   *)
(* that split, splitext, replace, join and Template.safe_substitute are    *)
(* computed character by character, as the library computes them.          *)
(***************************************************************************)
EXTENDS Integers, Sequences, FiniteSets, TLC

\* ------------------------------------------------------------------ bounds
\* Calls of digest made after the first call of a sequence.
MaxRepeat == 2
\* Changes made to the watched folders by something other than the program.
MaxTouch == 1

\* ------------------------------------------------------- strings (Python)
\* Code points in increasing order: Python compares str by code point.
CodeOrder ==
  << " ", "\"", "$", "(", ")", ",", "-", ".", "/",
     "0", "1", "2", "3", "4", "5", "6", "7", "8", "9", "@",
     "D", "M", "_",
     "a", "b", "c", "d", "e", "f", "g", "h", "i", "j", "k", "l", "m",
     "n", "o", "p", "q", "r", "s", "t", "u", "v", "w", "x", "y", "z",
     "{", "}" >>

Ord(c) == CHOOSE i \in 1..Len(CodeOrder) : CodeOrder[i] = c

\* s < t for Python str
RECURSIVE StrLess(_, _)
StrLess(s, t) ==
  IF t = <<>> THEN FALSE
  ELSE IF s = <<>> THEN TRUE
  ELSE IF Head(s) = Head(t) THEN StrLess(Tail(s), Tail(t))
  ELSE Ord(Head(s)) < Ord(Head(t))

\* s.replace(c, r) for a one-character c and a string r
RECURSIVE Replace(_, _, _)
Replace(s, c, r) ==
  IF s = <<>> THEN <<>>
  ELSE (IF Head(s) = c THEN r ELSE <<Head(s)>>) \o Replace(Tail(s), c, r)

\* s.split(c): the list of the pieces between occurrences of c
RECURSIVE SplitAcc(_, _, _)
SplitAcc(s, c, cur) ==
  IF s = <<>> THEN <<cur>>
  ELSE IF Head(s) = c THEN <<cur>> \o SplitAcc(Tail(s), c, <<>>)
  ELSE SplitAcc(Tail(s), c, Append(cur, Head(s)))

Split(s, c) == SplitAcc(s, c, <<>>)

\* sep.join(parts)
RECURSIVE Join(_, _)
Join(sep, parts) ==
  IF parts = <<>> THEN <<>>
  ELSE IF Len(parts) = 1 THEN parts[1]
  ELSE parts[1] \o sep \o Join(sep, Tail(parts))

\* filter(None, parts): drops None and the empty string (both are <<>> here)
RECURSIVE FilterNone(_)
FilterNone(parts) ==
  IF parts = <<>> THEN <<>>
  ELSE (IF Head(parts) = <<>> THEN <<>> ELSE <<Head(parts)>>)
       \o FilterNone(Tail(parts))

\* p.rfind(c): the last index of c in p, 0 when there is none
RFind(p, c) ==
  LET hits == {i \in 1..Len(p) : p[i] = c}
  IN IF hits = {} THEN 0 ELSE CHOOSE i \in hits : \A j \in hits : j <= i

\* os.path.splitext(p)[-1] for a name without a separator: the text from the
\* last dot, unless only dots precede it (then there is no extension).
SplitExt(p) ==
  LET dotIndex == RFind(p, ".")
  IN IF dotIndex > 0 /\ \E i \in 1..(dotIndex - 1) : p[i] # "."
       THEN SubSeq(p, dotIndex, Len(p))
       ELSE <<>>


\* string.Template: delimiter "$", idpattern [_a-z][_a-z0-9]* (ASCII)
IdStart ==
  { "_", "a", "b", "c", "d", "e", "f", "g", "h", "i", "j", "k", "l", "m",
    "n", "o", "p", "q", "r", "s", "t", "u", "v", "w", "x", "y", "z" }

IdChar == IdStart \cup {"0", "1", "2", "3", "4", "5", "6", "7", "8", "9"}

\* the longest prefix of s made of identifier characters (the regex is greedy)
RECURSIVE IdPrefix(_)
IdPrefix(s) ==
  IF s # <<>> /\ Head(s) \in IdChar THEN <<Head(s)>> \o IdPrefix(Tail(s))
  ELSE <<>>

Drop(s, n) == SubSeq(s, n + 1, Len(s))

\* Template(t).substitute(m): a placeholder missing from m raises KeyError and
\* a lone "$" raises ValueError.
RECURSIVE StrictSubstitute(_, _)
StrictSubstitute(t, m) ==
  IF t = <<>> THEN [raised |-> FALSE, text |-> <<>>]
  ELSE IF Head(t) # "$" THEN
    LET r == StrictSubstitute(Tail(t), m)
    IN [raised |-> r.raised, text |-> <<Head(t)>> \o r.text]
  ELSE
    LET r == Tail(t)
        named == IF r # <<>> /\ Head(r) \in IdStart THEN IdPrefix(r) ELSE <<>>
        inner == IF r # <<>> /\ Head(r) = "{" /\ Len(r) >= 2 /\ r[2] \in IdStart
                   THEN IdPrefix(Tail(r)) ELSE <<>>
        braced == IF inner # <<>> /\ Len(r) >= Len(inner) + 2
                       /\ r[Len(inner) + 2] = "}"
                    THEN inner ELSE <<>>
    IN IF r # <<>> /\ Head(r) = "$" THEN
         LET k == StrictSubstitute(Tail(r), m)
         IN [raised |-> k.raised, text |-> <<"$">> \o k.text]
       ELSE IF named # <<>> THEN
         LET k == StrictSubstitute(Drop(r, Len(named)), m)
         IN IF named \in DOMAIN m
              THEN [raised |-> k.raised, text |-> m[named] \o k.text]
              ELSE [raised |-> TRUE, text |-> <<>>]
       ELSE IF braced # <<>> THEN
         LET k == StrictSubstitute(Drop(r, Len(braced) + 2), m)
         IN IF braced \in DOMAIN m
              THEN [raised |-> k.raised, text |-> m[braced] \o k.text]
              ELSE [raised |-> TRUE, text |-> <<>>]
       ELSE [raised |-> TRUE, text |-> <<>>]

\* Template(t).safe_substitute(m): the pattern is
\*   \$(?: (escaped)\$ | (named)id | {(braced)id} | (invalid) )
\* a named or braced match in m gives str(m[name]); one not in m gives the
\* matched text back; escaped gives "$"; invalid gives the matched "$".
RECURSIVE SafeSubstitute(_, _)
SafeSubstitute(t, m) ==
  IF t = <<>> THEN [raised |-> FALSE, text |-> <<>>]
  ELSE IF Head(t) # "$" THEN
    LET r == SafeSubstitute(Tail(t), m)
    IN [raised |-> r.raised, text |-> <<Head(t)>> \o r.text]
  ELSE
    LET r == Tail(t)
        named == IF r # <<>> /\ Head(r) \in IdStart THEN IdPrefix(r) ELSE <<>>
        inner == IF r # <<>> /\ Head(r) = "{" /\ Len(r) >= 2 /\ r[2] \in IdStart
                   THEN IdPrefix(Tail(r)) ELSE <<>>
        braced == IF inner # <<>> /\ Len(r) >= Len(inner) + 2
                       /\ r[Len(inner) + 2] = "}"
                    THEN inner ELSE <<>>
    IN IF r # <<>> /\ Head(r) = "$" THEN
         LET k == SafeSubstitute(Tail(r), m)
         IN [raised |-> k.raised, text |-> <<"$">> \o k.text]
       ELSE IF named # <<>> THEN
         LET k == SafeSubstitute(Drop(r, Len(named)), m)
         IN [raised |-> k.raised,
             text |-> (IF named \in DOMAIN m THEN m[named] ELSE <<"$">> \o named)
                      \o k.text]
       ELSE IF braced # <<>> THEN
         LET k == SafeSubstitute(Drop(r, Len(braced) + 2), m)
         IN [raised |-> k.raised,
             text |-> (IF braced \in DOMAIN m THEN m[braced]
                       ELSE <<"$", "{">> \o braced \o <<"}">>)
                      \o k.text]
       ELSE
         LET k == SafeSubstitute(r, m)
         IN [raised |-> k.raised, text |-> <<"$">> \o k.text]

\* bundles renders with t.safe_substitute(versions)
Render(t, m) == SafeSubstitute(t, m)

\* ------------------------------------------------------------- the inputs
\* Python's None and "" are both <<>> where the code only tests truthiness
\* (filter(None, ...), "if path").
None == <<>>

\* extras is None, or a list of version strings
NoExtras == [isNone |-> TRUE, list |-> <<>>]

Extras(l) == [isNone |-> FALSE, list |-> l]

Entry(scope, name, subfolder, filename, extras) ==
  [scope |-> scope, name |-> name, subfolder |-> subfolder,
   filename |-> filename, extras |-> extras]

\* The Dependency Copy Specs the orchestrator is constructed with: the shapes
\* of Renderer's table (a scoped package without extras, packages with extra
\* versions, min and non-min file names), with short names.
DepsPolyfill == Entry(<<"@", "b">>, <<"p">>, <<"d", "i", "s", "t">>, <<"p", ".", "m", "i", "n", ".", "j", "s">>, NoExtras)

DepsReactMin == Entry(None, <<"r">>, <<"u", "m", "d">>, <<"r", ".", "m", "i", "n", ".", "j", "s">>, Extras(<<<<"8">>>>))

DepsReactDev == Entry(None, <<"r">>, <<"u", "m", "d">>, <<"r", ".", "d", "e", "v", ".", "j", "s">>, Extras(<<<<"8">>>>))

DepsReactDom == Entry(None, <<"r", "-", "d">>, <<"u", "m", "d">>, <<"r", "-", "d", ".", "j", "s">>, Extras(<<<<"8">>, <<"7">>>>))

DepsPropTypes == Entry(None, <<"p", ".", "t">>, None, <<"a", "d", "m", "i", "n", ".", "j", "s">>, Extras(<<>>))

\* package.json and package-lock.json: name, version, dependencies.  The lock
\* file's dependencies map a key to a record with a version.
Manifest == [name |-> <<"d", "-", "r">>, version |-> <<"1", ".", "0">>, dependencies |-> <<>>]

LockDeps ==
  (<<"@", "b", "/", "p">> :> [version |-> <<"7">>]) @@ (<<"r">> :> [version |-> <<"9">>])
  @@ (<<"r", "-", "d">> :> [version |-> <<"9">>]) @@ (<<"p", ".", "t">> :> [version |-> <<"1", ".", "5">>])

\* the lock file agrees with package.json
LockSame == [name |-> <<"d", "-", "r">>, version |-> <<"1", ".", "0">>, dependencies |-> LockDeps]

\* the lock file has another version
LockNewer == [name |-> <<"d", "-", "r">>, version |-> <<"1", ".", "1">>, dependencies |-> LockDeps]

\* the lock file has another name and version
LockRenamed == [name |-> <<"d", " ", "l">>, version |-> <<"1", ".", "1">>, dependencies |-> LockDeps]

\* the lock file lacks the dependency "r"
LockPartial ==
  [name |-> <<"d", "-", "r">>, version |-> <<"1", ".", "0">>,
   dependencies |-> [k \in DOMAIN LockDeps \ {<<"r">>} |-> LockDeps[k]]]

\* init.template, piece by piece: text, $name, ${name}, "$$", and a "$" that
\* starts no placeholder.  The bundles stage fills version, package, the
\* squashed dependency names and extra_<name>_versions; nothing fills nope
\* and no.
Lit(text) == [kind |-> "lit", text |-> text]

Named(id) == [kind |-> "named", text |-> id]

Braced(id) == [kind |-> "braced", text |-> id]

Escaped == [kind |-> "escaped", text |-> <<>>]

Lone == [kind |-> "lone", text |-> <<>>]

PiecesA ==
  << Lit(<<"v", "=">>), Named(<<"v", "e", "r", "s", "i", "o", "n">>), Lit(<<" ", "p", "=">>), Braced(<<"p", "a", "c", "k", "a", "g", "e">>), Lit(<<" ", "r", "=">>),
     Named(<<"r">>), Lit(<<" ", "x", "=">>), Named(<<"n", "o", "p", "e">>) >>

PiecesB ==
  << Named(<<"r", "d">>), Lit(<<",">>), Braced(<<"e", "x", "t", "r", "a", "_", "r", "d", "_", "v", "e", "r", "s", "i", "o", "n", "s">>), Lit(<<" ">>),
     Braced(<<"n", "o">>), Escaped, Lit(<<" ">>), Lone, Lit(<<"-", " ">>), Named(<<"p", "t">>) >>

\* the text of a piece as it stands in the template file
PieceSource(p) ==
  CASE p.kind = "lit" -> p.text
    [] p.kind = "named" -> <<"$">> \o p.text
    [] p.kind = "braced" -> <<"$", "{">> \o p.text \o <<"}">>
    [] p.kind = "escaped" -> <<"$", "$">>
    [] p.kind = "lone" -> <<"$">>

RECURSIVE TemplateText(_)
TemplateText(pieces) ==
  IF pieces = <<>> THEN <<>>
  ELSE PieceSource(Head(pieces)) \o TemplateText(Tail(pieces))

TemplateA == TemplateText(PiecesA)

TemplateB == TemplateText(PiecesB)

Config(lock, deps_info, template) ==
  [lock |-> lock, deps_info |-> deps_info, template |-> template]

\* the projects the model runs the orchestrator on
CfgSet ==
  { Config(LockSame, <<DepsPolyfill, DepsReactMin>>, TemplateA),
    Config(LockNewer, <<DepsReactDom>>, TemplateB),
    Config(LockPartial, <<DepsPropTypes, DepsReactDev>>, TemplateB),
    Config(LockRenamed, <<DepsPropTypes, DepsPolyfill>>, TemplateA) }

\* --------------------------------------------------------------- the state
VARIABLES
  cfg,       \* what the instance is built from: lock file, deps_info, template
  fs,        \* the filesystem: deps, nm (node_modules), build, digest, init
  obj,       \* the instance's name, version, deps (set by _parse_package)
  pc,        \* where the process is: none, ready, dead, or a step of a stage
  cmd,       \* the method called from outside: a stage, or build
  arg,       \* the build argument of bundles/build
  i,         \* index into asset_paths, deps_info or the digest's folders
  j,         \* index into the current entry's extras
  payload,   \* digest's payload dict so far
  versions,  \* bundles' versions dict so far
  exitCode,  \* the process's exit status once it is dead
  calls,     \* method calls made so far
  touches,   \* outside changes made so far
  trace,     \* this call's stage events: <<"start", s>>, <<"end", s>>
  failed,    \* the step of this call at which an error was raised, or "-"
  cleanLog,  \* this call's _clean_path invocations
  writes,    \* this call's writes into the dependency-output folder
  fetches,   \* this call's requests.get results
  digests,   \* the digest runs this instance completed
  listing,   \* digest: the names of the current folder still to hash
  reloaded,  \* whether bundles has re-read the package on this instance
  before     \* the digest file as it was when this call began

vars ==
  << cfg, fs, obj, pc, cmd, arg, i, j, payload, versions, exitCode, calls,
     touches, trace, failed, cleanLog, writes, fetches, digests, listing,
     reloaded, before >>

\* A directory entry or a path: kind is missing, file, dir or other (a FIFO,
\* socket or device: it exists, and is neither a regular file nor a directory;
\* _concat resolves symlinks, so a path is never a link itself).
NoFiles == <<>>

Missing == [kind |-> "missing", files |-> NoFiles, data |-> <<>>]

File(data) == [kind |-> "file", files |-> NoFiles, data |-> data]

Dir(files) == [kind |-> "dir", files |-> files, data |-> <<>>]

Other == [kind |-> "other", files |-> NoFiles, data |-> <<>>]

\* os.path.exists, os.path.isfile, os.path.isdir
Exists(e) == e.kind # "missing"

IsFile(e) == e.kind = "file"

IsDir(e) == e.kind = "dir"

\* _concat joins the truthy parts with the separator
Concat(parts) == Join(<<"/">>, FilterNone(parts))

\* a bug ParsePackage could have: only deps is taken from the file read
ParsePackageDepsOnly(package) ==
  [version |-> <<"1", ".", "0">>, name |-> <<"d", "-", "r">>, deps |-> package.dependencies]

\* _parse_package: version, name and deps are taken from the file read
ParsePackage(package) ==
  [version |-> package.version, name |-> package.name,
   deps |-> package.dependencies]

\* __init__: asset_paths = (deps_folder, npm_modules)
asset_paths == <<"deps", "nm">>

\* build: clean, npm, bundles, digest
BuildOrder == <<"clean", "npm", "bundles", "digest">>

Commands == {"clean", "npm", "bundles", "digest", "build"}

StageIndex(s) == CHOOSE n \in 1..Len(BuildOrder) : BuildOrder[n] = s

\* what runs when stage s returns: build's next call, or the caller
NextStage(c, s) ==
  IF c = "build" /\ StageIndex(s) < Len(BuildOrder)
    THEN BuildOrder[StageIndex(s) + 1]
    ELSE "return"

FirstStage(c) == IF c = "build" THEN BuildOrder[1] ELSE c

\* the stage a pc belongs to
StageOf(p) ==
  CASE p \in {"clean"} -> "clean"
    [] p \in {"npm"} -> "npm"
    [] p \in {"bundles", "copy", "fetch", "run", "render"} -> "bundles"
    [] p \in {"digest", "hash", "write"} -> "digest"
    [] OTHER -> "-"

\* what "npm ci" leaves in node_modules: the files the copy spec names
SourcePath(d) == Concat(<<d.scope, d.name, d.subfolder, d.filename>>)

InstalledFor(deps_info) ==
  LET paths == {SourcePath(deps_info[k]) : k \in 1..Len(deps_info)}
  IN Dir([p \in paths |-> File(<<"npm">> \o p)])

\* ------------------------------------------------- the filesystem at start
EnvJs == File(<<"env", "1">>)

EnvMap == File(<<"env", "2">>)

InitDeps ==
  { Missing, Other, File(<<"env", "0">>),
    Dir((<<"a", ".", "j", "s">> :> EnvJs) @@ (<<"b", ".", "t", "x", "t">> :> EnvJs)) }

InitBuild ==
  { Missing,
    Dir((<<"a", ".", "j", "s">> :> EnvMap) @@ (<<".", "j", "s">> :> EnvJs)),
    Dir((<<"c", ".", "m", "a", "p">> :> EnvMap) @@ (<<"d", ".", "j", "s">> :> Dir(NoFiles))) }

\* a digest.json left by an earlier run
OldDigest == File(<< <<<<"d", "-", "r">>, <<"0", ".", "9">>>> >>)

Start ==
  /\ obj = [name |-> <<>>, version |-> <<>>, deps |-> <<>>]
  /\ pc = "none"
  /\ cmd = "-"
  /\ arg = "None"
  /\ i = 1
  /\ j = 1
  /\ payload = <<>>
  /\ versions = <<>>
  /\ exitCode = 0
  /\ calls = 0
  /\ touches = 0
  /\ trace = <<>>
  /\ failed = "-"
  /\ cleanLog = <<>>
  /\ writes = <<>>
  /\ fetches = <<>>
  /\ digests = <<>>
  /\ listing = {}
  /\ reloaded = FALSE
  /\ before = Missing

\* one call, from any of the filesystems above
Init ==
  /\ cfg \in CfgSet
  /\ fs \in [deps : InitDeps, nm : {Missing, InstalledFor(cfg.deps_info)},
             build : InitBuild, digest : {Missing, OldDigest},
             init : {Missing}]
  /\ Start

\* a call and then digest again and again, from a project built before
InitSeq ==
  /\ cfg = Config(LockNewer, <<DepsReactMin>>, TemplateA)
  /\ fs = [deps |-> Dir((<<"a", ".", "j", "s">> :> EnvJs) @@ (<<"b", ".", "t", "x", "t">> :> EnvJs)),
           nm |-> InstalledFor(cfg.deps_info),
           build |-> Dir((<<"a", ".", "j", "s">> :> EnvMap) @@ (<<".", "j", "s">> :> EnvJs)),
           digest |-> Missing, init |-> Missing]
  /\ Start

\* ----------------------------------------------------------- the driver
\* the records of the last call are dropped
ClearCall ==
  /\ cmd' = "-"
  /\ arg' = "None"
  /\ i' = 1
  /\ j' = 1
  /\ payload' = <<>>
  /\ versions' = <<>>
  /\ trace' = <<>>
  /\ failed' = "-"
  /\ cleanLog' = <<>>
  /\ writes' = <<>>
  /\ fetches' = <<>>
  /\ listing' = {}
  /\ before' = Missing

\* A process starts and constructs the orchestrator: __init__ parses
\* package.json.
Construct ==
  /\ pc = "none"
  /\ obj' = ParsePackage(Manifest)
  /\ pc' = "ready"
  /\ exitCode' = 0
  /\ digests' = <<>>
  /\ reloaded' = FALSE
  /\ ClearCall
  /\ UNCHANGED << cfg, fs, calls, touches >>

\* A method of the instance is called (the command line, or a script).
CallOf(cmds) ==
  /\ pc = "ready"
  /\ \E c \in cmds, a \in {"None", "local"} :
       /\ (c \notin {"bundles", "build"} => a = "None")
       /\ cmd' = c
       /\ arg' = a
       /\ pc' = FirstStage(c)
       /\ trace' = << <<"start", FirstStage(c)>> >>
  /\ calls' = calls + 1
  /\ i' = 1
  /\ j' = 1
  /\ payload' = <<>>
  /\ versions' = <<>>
  /\ failed' = "-"
  /\ cleanLog' = <<>>
  /\ writes' = <<>>
  /\ fetches' = <<>>
  /\ listing' = {}
  /\ before' = fs.digest
  /\ UNCHANGED << cfg, fs, obj, exitCode, touches, digests, reloaded >>

\* the first call made on the instance: any method
Call ==
  /\ calls = 0
  /\ CallOf(Commands)

\* digest is called again on the same instance
CallDigestAgain ==
  /\ calls >= 1
  /\ calls < 1 + MaxRepeat
  /\ CallOf({"digest"})

\* the stage at pc returns
Finish(s) ==
  LET n == NextStage(cmd, s)
  IN /\ pc' = IF n = "return" THEN "ready" ELSE n
     /\ trace' = trace \o << <<"end", s>> >>
                 \o (IF n = "return" THEN <<>> ELSE << <<"start", n>> >>)
     /\ i' = 1
     /\ j' = 1

\* an exception or SystemExit leaves the stage and ends the process
Die ==
  /\ pc' = "dead"
  /\ exitCode' = 1
  /\ failed' = pc
  /\ UNCHANGED << trace, i, j >>

\* ------------------------------------------------------------------ clean
Result(entry, raised) == [entry |-> entry, raised |-> raised]

\* "if os.path.isfile(path): os.remove(path)": removes it, or raises OSError
AfterRemove(e) ==
  IF IsFile(e) THEN {Result(Missing, FALSE), Result(e, TRUE)}
  ELSE {Result(e, FALSE)}

\* "if os.path.isdir(path): shutil.rmtree(path)": removes the tree, or raises
\* OSError with the tree untouched or partly removed
AfterRmtree(r) ==
  IF r.raised THEN {r}
  ELSE IF IsDir(r.entry)
    THEN {Result(Missing, FALSE), Result(r.entry, TRUE),
          Result(Dir(NoFiles), TRUE)}
    ELSE {r}

\* a bug CleanPathOutcomes could have: a path that does not exist is an error
CleanPathOutcomesStrict(e) ==
  IF Exists(e)
    THEN UNION {AfterRmtree(r) : r \in AfterRemove(e)}
    ELSE {Result(e, TRUE)}

\* _clean_path(path): the outcomes of the try block, or nothing when the
\* path does not exist
CleanPathOutcomes(e) ==
  IF Exists(e)
    THEN UNION {AfterRmtree(r) : r \in AfterRemove(e)}
    ELSE {Result(e, FALSE)}

\* a bug ExitOnOSError could have: "except OSError: pass"
SwallowOSError == FALSE

\* "except OSError: sys.exit(1)"
ExitOnOSError == TRUE

\* clean: one iteration of "for path in self.asset_paths"
CleanPath ==
  /\ pc = "clean"
  /\ LET p == asset_paths[i]
     IN \E r \in CleanPathOutcomes(fs[p]) :
          /\ fs' = [fs EXCEPT ![p] = r.entry]
          /\ cleanLog' = Append(cleanLog,
               [path |-> p, before |-> fs[p], after |-> r.entry,
                raised |-> r.raised,
                same |-> ([fs EXCEPT ![p] = r.entry] = fs)])
          /\ IF r.raised
               THEN IF ExitOnOSError
                      THEN Die
                      ELSE /\ failed' = pc
                           /\ IF i < Len(asset_paths)
                                THEN /\ i' = i + 1
                                     /\ UNCHANGED << pc, trace, j >>
                                ELSE Finish("clean")
                           /\ UNCHANGED exitCode
               ELSE /\ IF i < Len(asset_paths)
                         THEN /\ i' = i + 1
                              /\ UNCHANGED << pc, trace, j >>
                         ELSE Finish("clean")
                    /\ UNCHANGED << exitCode, failed >>
  /\ UNCHANGED << cfg, obj, cmd, arg, payload, versions, calls, touches,
                  writes, fetches, digests, listing, reloaded, before >>

\* -------------------------------------------------------------------- npm
Installed == InstalledFor(cfg.deps_info)

\* run_command_with_process(cmd): returns when the command succeeds and ends
\* the process with a non-zero status when it fails
RunCommandFails(code) == code # 0

\* npm: os.chdir(main); run_command_with_process("npm ci")
Npm ==
  /\ pc = "npm"
  /\ \E code \in {0, 1} :
       IF RunCommandFails(code)
         THEN /\ Die
              /\ UNCHANGED fs
         ELSE /\ fs' = [fs EXCEPT !.nm = Installed]
              /\ Finish("npm")
              /\ UNCHANGED << exitCode, failed >>
  /\ UNCHANGED << cfg, obj, cmd, arg, payload, versions, calls, touches,
                  cleanLog, writes, fetches, digests, listing, reloaded, before >>

\* ---------------------------------------------------------------- bundles
\* d[k] = v on a dict that keeps insertion order (a sequence of <<k, v>>)
DictSet(d, k, v) ==
  IF \E n \in 1..Len(d) : d[n][1] = k
    THEN [n \in 1..Len(d) |-> IF d[n][1] = k THEN <<k, v>> ELSE d[n]]
    ELSE Append(d, <<k, v>>)

DictKeys(d) == {d[n][1] : n \in 1..Len(d)}

DictGet(d, k) == d[CHOOSE n \in 1..Len(d) : d[n][1] = k][2]

\* the dict as a mapping, for Template
DictMap(d) == [k \in DictKeys(d) |-> DictGet(d, k)]

\* os.makedirs(self.deps_folder) when the folder does not exist: creates it
\* or raises OSError (then logger.exception and sys.exit(1))
MakedirsOutcomes(e) ==
  IF Exists(e) THEN {Result(e, FALSE)}
  ELSE {Result(Dir(NoFiles), FALSE), Result(e, TRUE)}

\* versions = {"version": ..., "package": name with " " and "-" as "_"}
InitialVersions(o) ==
  << <<<<"v", "e", "r", "s", "i", "o", "n">>, o.version>>,
     <<<<"p", "a", "c", "k", "a", "g", "e">>, Replace(Replace(o.name, " ", <<"_">>), "-", <<"_">>)>> >>

\* "/".join(filter(None, [scope, name]))
DepKey(d) == Join(<<"/">>, FilterNone(<<d.scope, d.name>>))

\* name.replace("-", "").replace(".", "")
NameSquashed(name) == Replace(Replace(name, "-", <<>>), ".", <<>>)

\* a bug Ext could have: "min" in filename
ExtBySubstring(filename) ==
  IF \E n \in 1..(Len(filename) - 2) : SubSeq(filename, n, n + 2) = <<"m", "i", "n">>
    THEN <<"m", "i", "n", ".", "j", "s">> ELSE <<"j", "s">>

\* ext = "min.js" if "min" in filename.split(".") else "js"
Ext(filename) ==
  LET parts == Split(filename, ".")
  IN IF \E n \in 1..Len(parts) : parts[n] = <<"m", "i", "n">> THEN <<"m", "i", "n", ".", "j", "s">> ELSE <<"j", "s">>

\* f"{name}@{version}.{ext}"
Target(name, version, ext) == name \o <<"@">> \o version \o <<".">> \o ext

\* "if extras:" -- None and the empty list are both false
Truthy(extras) == ~extras.isNone /\ Len(extras.list) > 0

\* '"' + '", "'.join(extras) + '"'
ExtrasStr(extras) == <<"\"">> \o Join(<<"\"", ",", " ", "\"">>, extras.list) \o <<"\"">>

\* f"https://unpkg.com/{name}@{extra_version}/umd/{filename}"
Url(name, extra_version, filename) ==
  <<"h", "t", "t", "p", "s", ":", "/", "/", "u", "n", "p", "k", "g", ".", "c", "o", "m", "/">> \o name \o <<"@">> \o extra_version \o <<"/", "u", "m", "d", "/">>
  \o filename

\* file[name] = entry in a directory
PutFile(dir, name, entry) ==
  Dir([n \in DOMAIN dir.files \cup {name} |->
         IF n = name THEN entry ELSE dir.files[n]])

\* bundles up to the loop: makedirs, _parse_package(package_lock), the
\* _bundles_extra hook (absent), the versions dict
BundlesBegin ==
  /\ pc = "bundles"
  /\ \E r \in MakedirsOutcomes(fs.deps) :
       /\ fs' = [fs EXCEPT !.deps = r.entry]
       /\ IF r.raised
            THEN /\ Die
                 /\ UNCHANGED << obj, versions, reloaded >>
            ELSE /\ obj' = ParsePackage(cfg.lock)
                 /\ reloaded' = TRUE
                 /\ versions' = InitialVersions(obj')
                 /\ pc' = IF Len(cfg.deps_info) > 0 THEN "copy" ELSE "run"
                 /\ i' = 1
                 /\ j' = 1
                 /\ UNCHANGED << trace, exitCode, failed >>
  /\ UNCHANGED << cfg, cmd, arg, payload, calls, touches, cleanLog, writes,
                  fetches, digests, listing, before >>

\* where the loop goes after entry i, extra j
AfterExtra(d) ==
  IF Truthy(d.extras) /\ j < Len(d.extras.list)
    THEN [pc |-> "fetch", i |-> i, j |-> j + 1]
    ELSE IF i < Len(cfg.deps_info)
      THEN [pc |-> "copy", i |-> i + 1, j |-> 1]
      ELSE [pc |-> "run", i |-> 1, j |-> 1]

AfterCopy(d) ==
  IF Truthy(d.extras)
    THEN [pc |-> "fetch", i |-> i, j |-> 1]
    ELSE IF i < Len(cfg.deps_info)
      THEN [pc |-> "copy", i |-> i + 1, j |-> 1]
      ELSE [pc |-> "run", i |-> 1, j |-> 1]

\* shutil.copyfile(src, dst) can succeed when src is a file of node_modules
\* and the dependency-output folder is a directory
CanCopy(src) ==
  /\ IsDir(fs.nm)
  /\ src \in DOMAIN fs.nm.files
  /\ IsFile(fs.nm.files[src])
  /\ IsDir(fs.deps)

\* one iteration of the loop up to the extras: the version lookup (KeyError
\* when the lock file lacks the key), versions[name_squashed], copyfile
BundlesCopy ==
  /\ pc = "copy"
  /\ LET d == cfg.deps_info[i]
         key == DepKey(d)
         src == SourcePath(d)
     IN IF key \notin DOMAIN obj.deps
          THEN /\ Die
               /\ UNCHANGED << fs, versions, writes >>
          ELSE
            LET version == obj.deps[key].version
                target == Target(d.name, version, Ext(d.filename))
                v1 == DictSet(versions, NameSquashed(d.name), version)
                nxt == AfterCopy(d)
            IN \E ok \in BOOLEAN :
                 IF ok /\ CanCopy(src)
                   THEN /\ fs' = [fs EXCEPT !.deps =
                                    PutFile(fs.deps, target, fs.nm.files[src])]
                        /\ writes' = Append(writes,
                             [entry |-> i, target |-> target, from |-> "copy",
                              status |-> "ok"])
                        /\ versions' =
                             IF Truthy(d.extras)
                               THEN DictSet(v1,
                                      <<"e", "x", "t", "r", "a", "_">> \o NameSquashed(d.name)
                                      \o <<"_", "v", "e", "r", "s", "i", "o", "n", "s">>, ExtrasStr(d.extras))
                               ELSE v1
                        /\ pc' = nxt.pc
                        /\ i' = nxt.i
                        /\ j' = nxt.j
                        /\ UNCHANGED << trace, exitCode, failed >>
                   ELSE /\ Die
                        /\ versions' = v1
                        /\ UNCHANGED << fs, writes >>
  /\ UNCHANGED << cfg, obj, cmd, arg, payload, calls, touches, cleanLog,
                  fetches, digests, listing, reloaded, before >>

\* requests.get(url): a response (200, or an error status with the server's
\* error page as its content), or an exception when there is no response
FetchOutcomes == {"ok", "http_error", "conn_error"}

ResponseContent(url, status) ==
  IF status = "ok" THEN <<"cdn">> \o url ELSE <<"error page">>

\* requests.get raises only when there is no response; the status of a
\* response is not looked at
GetRaises(status) == status = "conn_error"

\* one iteration of "for extra_version in extras": get, open, write
BundlesFetch ==
  /\ pc = "fetch"
  /\ LET d == cfg.deps_info[i]
         extra_version == d.extras.list[j]
         url == Url(d.name, extra_version, d.filename)
         extra_target == Target(d.name, extra_version, Ext(d.filename))
         nxt == AfterExtra(d)
     IN \E status \in FetchOutcomes :
          /\ fetches' = Append(fetches,
               [entry |-> i, url |-> url, status |-> status])
          /\ IF GetRaises(status) \/ ~IsDir(fs.deps)
               THEN /\ Die
                    /\ UNCHANGED << fs, writes >>
               ELSE /\ fs' = [fs EXCEPT !.deps =
                                PutFile(fs.deps, extra_target,
                                        File(ResponseContent(url, status)))]
                    /\ writes' = Append(writes,
                         [entry |-> i, target |-> extra_target,
                          from |-> "fetch", status |-> status])
                    /\ pc' = nxt.pc
                    /\ i' = nxt.i
                    /\ j' = nxt.j
                    /\ UNCHANGED << trace, exitCode, failed >>
  /\ UNCHANGED << cfg, obj, cmd, arg, payload, versions, calls, touches,
                  cleanLog, digests, listing, reloaded, before >>

\* _script = "build:dev" if build == "local" else "build:js"
Script(a) == IF a = "local" THEN "build:dev" ELSE "build:js"

\* what the bundler leaves in the build folder
BundlerOutput(script) ==
  IF script = "build:dev"
    THEN (<<"d", ".", "d", "e", "v", ".", "j", "s">> :> File(<<"bundle", "dev">>))
    ELSE (<<"d", ".", "m", "i", "n", ".", "j", "s">> :> File(<<"bundle", "min">>))
         @@ (<<"d", ".", "m", "i", "n", ".", "j", "s", ".", "m", "a", "p">> :> File(<<"bundle", "map">>))

BuildAfterBundler(e, script) ==
  LET out == BundlerOutput(script)
      old == IF IsDir(e) THEN e.files ELSE NoFiles
  IN Dir([n \in DOMAIN old \cup DOMAIN out |->
            IF n \in DOMAIN out THEN out[n] ELSE old[n]])

\* run_command_with_process(f"npm run {_script}")
BundlesRun ==
  /\ pc = "run"
  /\ \E code \in {0, 1} :
       IF RunCommandFails(code)
         THEN /\ Die
              /\ UNCHANGED fs
         ELSE /\ fs' = [fs EXCEPT !.build = BuildAfterBundler(@, Script(arg))]
              /\ pc' = "render"
              /\ UNCHANGED << trace, i, j, exitCode, failed >>
  /\ UNCHANGED << cfg, obj, cmd, arg, payload, versions, calls, touches,
                  cleanLog, writes, fetches, digests, listing, reloaded, before >>

\* the template is read, rendered and written to _dash_renderer.py
BundlesRender ==
  /\ pc = "render"
  /\ LET r == Render(cfg.template, DictMap(versions))
     IN IF r.raised
          THEN /\ Die
               /\ UNCHANGED fs
          ELSE /\ fs' = [fs EXCEPT !.init = File(r.text)]
               /\ Finish("bundles")
               /\ UNCHANGED << exitCode, failed >>
  /\ UNCHANGED << cfg, obj, cmd, arg, payload, versions, calls, touches,
                  cleanLog, writes, fetches, digests, listing, reloaded, before >>

\* ----------------------------------------------------------------- digest
\* for folder in (self.deps_folder, self.build_folder)
DigestFolders == <<"deps", "build">>

\* a bug IsBundle could have: source maps are left out
IsBundleJsOnly(n) == SplitExt(n) \in {<<".", "j", "s">>}

\* os.path.splitext(_)[-1] in {".js", ".map"}
IsBundle(n) == SplitExt(n) \in {<<".", "j", "s">>, <<".", "m", "a", "p">>}

\* f"MD5 ({copy})"
DigestKey(copy) == <<"M", "D", "5", " ", "(">> \o copy \o <<")">>

\* compute_md5(path): the hash of the file's content
Md5(data) == <<"md5">> \o data

\* the items of a dict in the order of its keys
RECURSIVE SortItems(_)
SortItems(d) ==
  IF d = <<>> THEN <<>>
  ELSE LET m == CHOOSE n \in 1..Len(d) :
                  \A k \in 1..Len(d) : k = n \/ StrLess(d[n][1], d[k][1])
       IN <<d[m]>> \o SortItems([n \in 1..(Len(d) - 1) |->
                                   IF n < m THEN d[n] ELSE d[n + 1]])

\* a bug JsonDump could have: the items in insertion order
JsonDumpUnsorted(d) == d

\* json.dump(payload, fp, sort_keys=True, indent=4, separators=(",", ":")):
\* the text is fixed by the sequence of items, which sort_keys orders by key
JsonDump(d) == SortItems(d)

\* payload = {self.name: self.version}
InitialPayload(o) == << <<o.name, o.version>> >>

\* digest up to the loop: makedirs, the payload's first item
DigestBegin ==
  /\ pc = "digest"
  /\ \E r \in MakedirsOutcomes(fs.deps) :
       /\ fs' = [fs EXCEPT !.deps = r.entry]
       /\ IF r.raised
            THEN /\ Die
                 /\ UNCHANGED payload
            ELSE /\ payload' = InitialPayload(obj)
                 /\ pc' = "list"
                 /\ i' = 1
                 /\ j' = 1
                 /\ UNCHANGED << trace, exitCode, failed >>
  /\ UNCHANGED << cfg, obj, cmd, arg, versions, calls, touches, cleanLog,
                  writes, fetches, digests, listing, reloaded, before >>

\* a bug AfterFolder could have: the loop ends after the first folder
AfterFirstFolder == [pc |-> "write", i |-> 1]

\* where digest goes once the copies of folder i are hashed
AfterFolder ==
  IF i < Len(DigestFolders) THEN [pc |-> "list", i |-> i + 1]
  ELSE [pc |-> "write", i |-> 1]

\* copies = tuple(_ for _ in os.listdir(folder) if ...): NotADirectoryError or
\* FileNotFoundError when the folder is no directory
DigestList ==
  /\ pc = "list"
  /\ LET folder == fs[DigestFolders[i]]
     IN IF ~IsDir(folder)
          THEN /\ Die
               /\ UNCHANGED listing
          ELSE LET copies == {n \in DOMAIN folder.files : IsBundle(n)}
               IN /\ listing' = copies
                  /\ pc' = IF copies = {} THEN AfterFolder.pc ELSE "hash"
                  /\ i' = IF copies = {} THEN AfterFolder.i ELSE i
                  /\ UNCHANGED << trace, j, exitCode, failed >>
  /\ UNCHANGED << cfg, fs, obj, cmd, arg, payload, versions, calls, touches,
                  cleanLog, writes, fetches, digests, reloaded, before >>

\* one iteration of "for copy in copies", in the order os.listdir gave (any
\* order): compute_md5 raises when the entry is no regular file
DigestHash ==
  /\ pc = "hash"
  /\ \E copy \in listing :
       LET e == fs[DigestFolders[i]].files[copy]
       IN IF ~IsFile(e)
            THEN /\ Die
                 /\ UNCHANGED << payload, listing >>
            ELSE /\ payload' = DictSet(payload, DigestKey(copy), Md5(e.data))
                 /\ listing' = listing \ {copy}
                 /\ pc' = IF listing' = {} THEN AfterFolder.pc ELSE "hash"
                 /\ i' = IF listing' = {} THEN AfterFolder.i ELSE i
                 /\ UNCHANGED << trace, j, exitCode, failed >>
  /\ UNCHANGED << cfg, fs, obj, cmd, arg, versions, calls, touches, cleanLog,
                  writes, fetches, digests, reloaded, before >>

\* open(digest.json, "w"); json.dump(payload, ...); the same text is logged
DigestWrite ==
  /\ pc = "write"
  /\ fs' = [fs EXCEPT !.digest = File(JsonDump(payload))]
  /\ digests' = Append(digests,
       [data |-> JsonDump(payload), call |-> calls, cmd |-> cmd,
        touches |-> touches])
  /\ Finish("digest")
  /\ UNCHANGED << cfg, obj, cmd, arg, payload, versions, exitCode, calls,
                  touches, failed, cleanLog, writes, fetches, listing, reloaded, before >>

\* ------------------------------------------------------------ the outside
\* Between calls something else (the bundler's watch mode, the user) changes
\* an entry of a watched folder.
TouchSet ==
  { <<<<"a", ".", "j", "s">>, File(<<"env", "3">>)>>,
    <<<<"c", ".", "m", "a", "p">>, EnvMap>>,
    <<<<"d", ".", "j", "s">>, Dir(NoFiles)>>,
    <<<<"a", ".", "j", "s">>, Missing>> }

EnvTouch ==
  /\ pc \in {"none", "ready", "dead"}
  /\ touches < MaxTouch
  /\ \E f \in {"deps", "build"}, t \in TouchSet :
       /\ IsDir(fs[f])
       /\ LET names == IF t[2] = Missing
                         THEN DOMAIN fs[f].files \ {t[1]}
                         ELSE DOMAIN fs[f].files \cup {t[1]}
              new == Dir([n \in names |->
                            IF n = t[1] THEN t[2] ELSE fs[f].files[n]])
          IN /\ new # fs[f]
             /\ fs' = [fs EXCEPT ![f] = new]
  /\ touches' = touches + 1
  /\ ClearCall
  /\ UNCHANGED << cfg, obj, pc, exitCode, calls, digests, reloaded >>

Steps ==
  \/ CleanPath
  \/ Npm
  \/ BundlesBegin
  \/ BundlesCopy
  \/ BundlesFetch
  \/ BundlesRun
  \/ BundlesRender
  \/ DigestBegin
  \/ DigestList
  \/ DigestHash
  \/ DigestWrite

\* one process, one call
Next ==
  \/ Construct
  \/ Call
  \/ Steps

Spec == Init /\ [][Next]_vars

\* one process: a call, then digest repeated, the watched folders changing
\* in between
NextSeq ==
  \/ Construct
  \/ Call
  \/ CallDigestAgain
  \/ Steps
  \/ EnvTouch

SpecSeq == InitSeq /\ [][NextSeq]_vars

\* ------------------------------------------------------------- properties
Events == {trace[n] : n \in 1..Len(trace)}

Ended(s) == <<"end", s>> \in Events

IsPrefix(s, t) == Len(s) <= Len(t) /\ SubSeq(t, 1, Len(s)) = s

Items(d) == {d[n] : n \in 1..Len(d)}

\* the events of a complete build
FullTrace ==
  << <<"start", "clean">>, <<"end", "clean">>,
     <<"start", "npm">>, <<"end", "npm">>,
     <<"start", "bundles">>, <<"end", "bundles">>,
     <<"start", "digest">>, <<"end", "digest">> >>

\* C1: build runs clean, npm, bundles, digest in that order, each stage
\* starting only when the one before has ended; once a stage has failed the
\* process is dead with a non-zero status, the failed stage is the last one
\* started, and the digest file is as it was when the call began; build
\* returns only with all four stages ended.
C1_BuildOrder ==
  cmd = "build" =>
    /\ IsPrefix(trace, FullTrace)
    /\ (failed # "-" =>
          /\ pc = "dead"
          /\ exitCode # 0
          /\ trace[Len(trace)] = <<"start", StageOf(failed)>>
          /\ fs.digest = before)
    /\ (pc = "ready" => trace = FullTrace /\ failed = "-")

\* build died in the bundler run, after clean and npm had ended
C1_Witness ==
  /\ cmd = "build"
  /\ failed = "run"
  /\ pc = "dead"
  /\ Len(trace) = 5
  /\ fs.digest = OldDigest

\* C2: every path that existed when _clean_path took it is gone once
\* _clean_path has returned; otherwise the process is dead with a non-zero
\* status.
C2_CleanRemovesExisting ==
  \A n \in 1..Len(cleanLog) :
    Exists(cleanLog[n].before) =>
      IF cleanLog[n].raised
        THEN pc = "dead" /\ exitCode # 0
        ELSE ~Exists(cleanLog[n].after)

\* C3: clean takes the dependency-output folder and then node_modules; for a
\* path that does not exist it changes nothing on the filesystem and raises
\* nothing, and goes on to the next path; the process dies in clean only at
\* a path that existed.
C3_CleanMissingIsNoop ==
  /\ \A n \in 1..Len(cleanLog) :
       /\ cleanLog[n].path = (IF n = 1 THEN "deps" ELSE "nm")
       /\ (~Exists(cleanLog[n].before) =>
             /\ cleanLog[n].same
             /\ ~cleanLog[n].raised
             /\ (n = 1 /\ Len(cleanLog) = 1 => pc = "clean" /\ i = 2))
  /\ Len(cleanLog) <= 2
  /\ (failed = "clean" => Exists(cleanLog[Len(cleanLog)].before))
  /\ (Ended("clean") => Len(cleanLog) = 2)

\* clean has returned; the dependency-output folder was missing and
\* node_modules was removed
C3_Witness ==
  /\ Ended("clean")
  /\ ~Exists(cleanLog[1].before)
  /\ IsDir(cleanLog[2].before)
  /\ ~Exists(fs.nm)
  /\ pc # "dead"

\* name f has extension e: f ends with e and something other than dots
\* stands before it
HasExt(f, e) ==
  /\ Len(f) > Len(e)
  /\ SubSeq(f, Len(f) - Len(e) + 1, Len(f)) = e
  /\ \E n \in 1..(Len(f) - Len(e)) : f[n] # "."

BundleNames(dir) ==
  {f \in DOMAIN dir.files : HasExt(f, <<".", "j", "s">>) \/ HasExt(f, <<".", "m", "a", "p">>)}

ExpectedKeys ==
  {obj.name}
  \cup {<<"M", "D", "5", " ", "(">> \o f \o <<")">> : f \in BundleNames(fs.deps) \cup BundleNames(fs.build)}

DigestDone == pc = "ready" /\ Ended("digest")

\* C4: when digest has returned, the keys of digest.json are the package
\* name and "MD5 (f)" for every entry f with extension .js or .map of the
\* dependency-output folder or the build folder, each once, and no other.
C4_DigestKeys ==
  DigestDone =>
    /\ fs.digest.kind = "file"
    /\ DictKeys(fs.digest.data) = ExpectedKeys
    /\ Len(fs.digest.data) = Cardinality(ExpectedKeys)

\* digest has returned with a.js in both folders, b.txt in the first and a
\* name without extension (.js) in the second: one key for a.js, with the
\* hash of the build folder's file
C4_Witness ==
  /\ DigestDone
  /\ IsDir(fs.deps)
  /\ <<"a", ".", "j", "s">> \in DOMAIN fs.deps.files
  /\ <<"b", ".", "t", "x", "t">> \in DOMAIN fs.deps.files
  /\ <<"a", ".", "j", "s">> \in DOMAIN fs.build.files
  /\ <<".", "j", "s">> \in DOMAIN fs.build.files
  /\ fs.digest.data = << <<<<"M", "D", "5", " ", "(", "a", ".", "j", "s", ")">>, Md5(EnvMap.data)>>,
                         <<<<"d", "-", "r">>, <<"1", ".", "0">>>> >>

\* digest run k + 1 followed run k with no other call and no outside change
InARow(k) ==
  /\ digests[k + 1].cmd = "digest"
  /\ digests[k + 1].call = digests[k].call + 1
  /\ digests[k + 1].touches = digests[k].touches

C6_FetchFailureAborts ==
  \A n \in 1..Len(fetches) :
    fetches[n].status # "ok" =>
      /\ n = Len(fetches)
      /\ pc = "dead"
      /\ StageOf(failed) = "bundles"
      /\ \A w \in 1..Len(writes) : writes[w].status = "ok"
      /\ ~Ended("bundles")

\* "min" stands in f between dots or the ends of f
HasMinToken(f) ==
  \E a \in 1..Len(f) :
    /\ a + 2 <= Len(f)
    /\ SubSeq(f, a, a + 2) = <<"m", "i", "n">>
    /\ (a = 1 \/ f[a - 1] = ".")
    /\ (a + 2 = Len(f) \/ f[a + 3] = ".")

ExpectedName(d, version) ==
  d.name \o <<"@">> \o version \o <<".">>
  \o (IF HasMinToken(d.filename) THEN <<"m", "i", "n", ".", "j", "s">> ELSE <<"j", "s">>)

LockKey(d) == IF d.scope = None THEN d.name ELSE d.scope \o <<"/">> \o d.name

ExpectedWrites(d) ==
  << [target |-> ExpectedName(d, cfg.lock.dependencies[LockKey(d)].version),
      from |-> "copy"] >>
  \o (IF d.extras.isNone THEN <<>>
      ELSE [n \in 1..Len(d.extras.list) |->
              [target |-> ExpectedName(d, d.extras.list[n]),
               from |-> "fetch"]])

WritesOf(k) ==
  LET Keep(w) == w.entry = k
      sel == SelectSeq(writes, Keep)
  IN [n \in 1..Len(sel) |-> [target |-> sel[n].target, from |-> sel[n].from]]

\* bundles is through with entry k of the copy spec
EntryDone(k) ==
  \/ Ended("bundles")
  \/ pc \in {"run", "render"}
  \/ pc \in {"copy", "fetch"} /\ i > k

\* C7: for a copy spec entry bundles is through with, the writes into the
\* dependency-output folder are one copy named <name>@<resolved version>.<ext>
\* followed by one fetched file <name>@<v>.<ext> per v of extras, none when
\* extras is None or empty; <ext> is min.js when min is a dot-separated token
\* of filename and js otherwise; the files are in the folder.
C7_CopySpecWrites ==
  \A k \in 1..Len(cfg.deps_info) :
    EntryDone(k) =>
      /\ WritesOf(k) = ExpectedWrites(cfg.deps_info[k])
      /\ IsDir(fs.deps)
      /\ \A n \in 1..Len(WritesOf(k)) :
           WritesOf(k)[n].target \in DOMAIN fs.deps.files

\* the loop is over for an entry with two extras and a non-min file name
C7_Witness ==
  /\ pc = "run"
  /\ cfg.deps_info = <<DepsReactDom>>
  /\ WritesOf(1) = << [target |-> <<"r", "-", "d", "@", "9", ".", "j", "s">>, from |-> "copy"],
                      [target |-> <<"r", "-", "d", "@", "8", ".", "j", "s">>, from |-> "fetch"],
                      [target |-> <<"r", "-", "d", "@", "7", ".", "j", "s">>, from |-> "fetch"] >>

\* what a piece of the template becomes under the mapping m
PieceResult(p, m) ==
  CASE p.kind = "lit" -> p.text
    [] p.kind \in {"named", "braced"} ->
         IF p.text \in DOMAIN m THEN m[p.text] ELSE PieceSource(p)
    [] p.kind = "escaped" -> <<"$">>
    [] p.kind = "lone" -> <<"$">>

RECURSIVE ExpectedRender(_, _)
ExpectedRender(pieces, m) ==
  IF pieces = <<>> THEN <<>>
  ELSE PieceResult(Head(pieces), m) \o ExpectedRender(Tail(pieces), m)

PiecesOf(t) == IF t = TemplateA THEN PiecesA ELSE PiecesB

\* C8: rendering raises nothing, and the file bundles writes is the template
\* with every placeholder that versions names replaced by its value and every
\* other placeholder left as it stands in the template.
C8_SafeSubstitution ==
  /\ failed # "render"
  /\ (Ended("bundles") =>
        fs.init = File(ExpectedRender(PiecesOf(cfg.template),
                                      DictMap(versions))))

\* bundles has rendered a template with a placeholder versions lacks
C8_Witness ==
  /\ Ended("bundles")
  /\ <<"n", "o", "p", "e">> \notin DictKeys(versions)
  /\ fs.init = File(<<"v", "=", "1", ".", "0", " ", "p", "=", "d", "_", "r", " ", "r", "=", "9", " ", "x", "=", "$", "n", "o", "p", "e">>)

\* the digest file holds p's name and version, and no other item under the
\* manifest's or the lock file's name
RecordsPackage(p) ==
  /\ <<p.name, p.version>> \in Items(fs.digest.data)
  /\ \A it \in Items(fs.digest.data) :
       it[1] \in {Manifest.name, cfg.lock.name} => it = <<p.name, p.version>>

\* C9: the digest written by build records the lock file's name and version
\* (bundles has re-read them and nothing restores them); the digest written
\* by digest called alone records package.json's.
C9_DigestPackageSource ==
  DigestDone =>
    /\ (cmd = "build" => reloaded /\ RecordsPackage(cfg.lock))
    /\ (cmd = "digest" => ~reloaded /\ RecordsPackage(Manifest))

\* build has returned with a lock file whose name and version differ from
\* package.json's
C9_Witness ==
  /\ DigestDone
  /\ cmd = "build"
  /\ cfg.lock = LockRenamed
  /\ <<<<"d", " ", "l">>, <<"1", ".", "1">>>> \in Items(fs.digest.data)
  /\ <<<<"d", "-", "r">>, <<"1", ".", "0">>>> \notin Items(fs.digest.data)

\* C10: the digest file changes only when digest returns, and then holds the
\* whole payload; a digest stage that fails leaves it as it was; digest
\* creates the dependency-output folder when there is none (past its first
\* step the path exists) but not the build folder, and with no build folder
\* it does not return.
C10_DigestWritesLast ==
  /\ (StageOf(failed) = "digest" => fs.digest = before)
  /\ (cmd # "-" /\ fs.digest # before =>
        /\ Ended("digest")
        /\ DictKeys(fs.digest.data) = ExpectedKeys)
  /\ (cmd = "digest" /\ ~IsDir(fs.build) =>
        /\ pc # "ready"
        /\ fs.build = Missing
        /\ (pc \in {"list", "dead"} /\ failed # "digest" => Exists(fs.deps)))

\* digest created the dependency-output folder, failed listing the missing
\* build folder and left the old digest file
C10_Witness ==
  /\ cmd = "digest"
  /\ failed = "list"
  /\ pc = "dead"
  /\ fs.build = Missing
  /\ fs.deps = Dir(NoFiles)
  /\ before = OldDigest
  /\ fs.digest = OldDigest

====
